---- MODULE Spec2Model ----
(***************************************************************************)
(* A model of the HTTPProxy forwarding proxy (server.py, http_parser.py).  *)
(*                                                                         *)
(* Byte strings and text are sequences of lexemes: the four separators     *)
(* CR, LF, SP and COLON are lexemes of their own, every other lexeme is a  *)
(* run of characters that contains none of them.  The string               *)
(* "Host: a.com:80\r\n" is <<"Host", ":", " ", "a.com", ":", "80", CR, LF>>.*)
(* The parser, the serializer and the worker's searches and splits are     *)
(* computed on these sequences the way the code computes them on bytes.    *)
(***************************************************************************)
EXTENDS Integers, Sequences, FiniteSets, TLC

CR == "<CR>"
LF == "<LF>"
SP == " "
COLON == ":"
\* a byte that is not valid UTF-8: bytes.decode() raises on it
BAD == "<0xff>"

\* Python's None for the optional string fields of HTTPHeader; status_code
\* None is NoCode
None == <<"<None>">>
NoCode == -1

CRLF == <<CR, LF>>
CRLFCRLF == <<CR, LF, CR, LF>>
LFLF == <<LF, LF>>

Min(S) == CHOOSE x \in S : \A y \in S : x <= y

(***************************************************************************)
(* str / bytes primitives                                                  *)
(***************************************************************************)
\* s[a:] with a 0-based
From(s, a) == SubSeq(s, a + 1, Len(s))

\* s.find(pat): 0-based index of the first occurrence, -1 when absent
find(s, pat) ==
  LET hits == {i \in 0..(Len(s) - Len(pat)) : SubSeq(s, i + 1, i + Len(pat)) = pat}
  IN IF hits = {} THEN -1 ELSE Min(hits)

\* pat in s
contains(s, pat) == find(s, pat) # -1

\* s.split(pat, 1): one part when pat is absent, otherwise two
split1(s, pat) ==
  LET i == find(s, pat)
  IN IF i = -1 THEN <<s>> ELSE <<SubSeq(s, 1, i), From(s, i + Len(pat))>>

\* s.split(sep): every part, empty parts kept
RECURSIVE split(_, _)
split(s, sep) ==
  LET i == find(s, sep)
  IN IF i = -1 THEN <<s>>
     ELSE <<SubSeq(s, 1, i)>> \o split(From(s, i + Len(sep)), sep)

\* s.replace(old, new): left to right, non-overlapping
RECURSIVE replace(_, _, _)
replace(s, old, new) ==
  IF Len(s) < Len(old) THEN s
  ELSE IF SubSeq(s, 1, Len(old)) = old
       THEN new \o replace(From(s, Len(old)), old, new)
       ELSE <<Head(s)>> \o replace(Tail(s), old, new)

RECURSIVE lstrip(_)
lstrip(s) == IF s # <<>> /\ Head(s) = SP THEN lstrip(Tail(s)) ELSE s

RECURSIVE rstrip(_)
rstrip(s) ==
  IF s # <<>> /\ s[Len(s)] = SP THEN rstrip(SubSeq(s, 1, Len(s) - 1)) ELSE s

\* s.strip(); after normalisation a line holds no CR or LF, SP is the
\* whitespace left
strip(s) == rstrip(lstrip(s))

\* s.split(None, maxsplit): split on runs of whitespace, at most maxsplit
\* splits, the rest (leading whitespace removed) is the last part;
\* maxsplit = -1 means no limit
RECURSIVE split_ws(_, _)
split_ws(s, maxsplit) ==
  LET t == lstrip(s)
      i == find(t, <<SP>>)
  IN IF t = <<>> THEN <<>>
     ELSE IF maxsplit = 0 THEN <<t>>
     ELSE IF i = -1 THEN <<t>>
     ELSE <<SubSeq(t, 1, i)>>
            \o split_ws(From(t, i), IF maxsplit = -1 THEN -1 ELSE maxsplit - 1)

\* sep.join(parts)
RECURSIVE join(_, _)
join(parts, sep) ==
  IF parts = <<>> THEN <<>>
  ELSE IF Len(parts) = 1 THEN parts[1]
  ELSE parts[1] \o sep \o join(Tail(parts), sep)

\* bytes.decode() / str.encode(): the lexemes are kept; decode raises
\* UnicodeDecodeError on an invalid byte
decodable(b) == \A i \in 1..Len(b) : b[i] # BAD
decode(b) == b
encode(s) == s

\* int(s) / str(n) on the numerals the model uses
Numerals == {"0", "1", "2", "3", "80", "200", "404", "443"}
IntOf(tok) ==
  CASE tok = "0" -> 0 [] tok = "1" -> 1 [] tok = "2" -> 2 [] tok = "3" -> 3
    [] tok = "80" -> 80 [] tok = "200" -> 200 [] tok = "404" -> 404
    [] tok = "443" -> 443
is_int(s) == Len(s) = 1 /\ s[1] \in Numerals
int(s) == IntOf(s[1])
str(n) == <<CHOOSE tok \in Numerals : IntOf(tok) = n>>

\* str.lower() on the lexemes that have upper-case letters in a target
LowerTok(tok) ==
  CASE tok = "HTTPS" -> "https" [] tok = "HTTP" -> "http" [] OTHER -> tok
lower(s) == [i \in 1..Len(s) |-> LowerTok(s[i])]

\* line.startswith('HTTP/'): the lexemes that begin with these five characters
startswith_HTTP(line) == line # <<>> /\ Head(line) \in {"HTTP/1.0", "HTTP/1.1"}

(***************************************************************************)
(* http_parser.HTTPHeader.  The header map is a Python dict: a sequence of *)
(* <<key, value>> pairs with distinct keys, in insertion order.            *)
(***************************************************************************)
\* Python truthiness of an Optional[str]
truthy(s) == s # None /\ s # <<>>

\* x or y
or(x, y) == IF truthy(x) THEN x ELSE y

dict_has(d, key) == \E i \in 1..Len(d) : d[i][1] = key

\* d.get(key)
dict_get(d, key) ==
  IF dict_has(d, key) THEN d[CHOOSE i \in 1..Len(d) : d[i][1] = key][2] ELSE None

\* d[key] = value: an existing key keeps its place
dict_set(d, key, value) ==
  IF dict_has(d, key)
  THEN [i \in 1..Len(d) |-> IF d[i][1] = key THEN <<key, value>> ELSE d[i]]
  ELSE Append(d, <<key, value>>)

\* del d[key]
dict_del(d, key) == SelectSeq(d, LAMBDA kv : kv[1] # key)

\* HTTPHeader.__init__: the fields before _parse runs
init_fields ==
  [method |-> None, path |-> None, version |-> <<"HTTP/1.1">>,
   status_code |-> NoCode, status_message |-> None, headers |-> <<>>,
   body |-> None, is_request |-> TRUE]

\* HTTPHeader._parse_request_line
parse_request_line(h, line) ==
  LET parts == split_ws(line, -1)
      h1 == IF Len(parts) >= 1 THEN [h EXCEPT !.method = parts[1]] ELSE h
      h2 == IF Len(parts) >= 2 THEN [h1 EXCEPT !.path = parts[2]] ELSE h1
  IN IF Len(parts) >= 3 THEN [h2 EXCEPT !.version = parts[3]] ELSE h2

\* HTTPHeader._parse_status_line
parse_status_line(h, line) ==
  LET parts == split_ws(line, 2)
      h1 == IF Len(parts) >= 1 THEN [h EXCEPT !.version = parts[1]] ELSE h
      h2 == IF Len(parts) >= 2
            THEN [h1 EXCEPT !.status_code =
                               IF is_int(parts[2]) THEN int(parts[2]) ELSE NoCode]
            ELSE h1
  IN IF Len(parts) >= 3 THEN [h2 EXCEPT !.status_message = parts[3]] ELSE h2

\* the header loop of HTTPHeader._parse; i is the 1-based index of the line
RECURSIVE parse_header_lines(_, _, _)
parse_header_lines(h, lines, i) ==
  IF i > Len(lines) THEN h
  ELSE LET line == strip(lines[i])
       IN IF line = <<>>
          THEN IF i + 1 <= Len(lines)
               THEN [h EXCEPT !.body = join(SubSeq(lines, i + 1, Len(lines)), <<LF>>)]
               ELSE h
          ELSE IF contains(line, <<COLON>>)
               THEN LET kv == split1(line, <<COLON>>)
                    IN parse_header_lines(
                         [h EXCEPT !.headers = dict_set(@, strip(kv[1]), strip(kv[2]))],
                         lines, i + 1)
               ELSE parse_header_lines(h, lines, i + 1)

\* a _parse that leaves a lone CR in place
parse_keeps_cr(h, header_string) ==
  IF header_string = <<>> THEN h
  ELSE LET normalized == replace(header_string, CRLF, <<LF>>)
           lines == split(normalized, <<LF>>)
           first_line == strip(lines[1])
           h1 == IF startswith_HTTP(first_line)
                 THEN [parse_status_line(h, first_line) EXCEPT !.is_request = FALSE]
                 ELSE [parse_request_line(h, first_line) EXCEPT !.is_request = TRUE]
       IN parse_header_lines(h1, lines, 2)

\* HTTPHeader._parse
parse(h, header_string) ==
  IF header_string = <<>> THEN h
  ELSE LET normalized == replace(replace(header_string, CRLF, <<LF>>), <<CR>>, <<LF>>)
           lines == split(normalized, <<LF>>)
           first_line == strip(lines[1])
           h1 == IF startswith_HTTP(first_line)
                 THEN [parse_status_line(h, first_line) EXCEPT !.is_request = FALSE]
                 ELSE [parse_request_line(h, first_line) EXCEPT !.is_request = TRUE]
       IN parse_header_lines(h1, lines, 2)

\* HTTPHeader(header_string)
HTTPHeader(header_string) == parse(init_fields, header_string)

get_method(h) == h.method
get_path(h) == h.path
get_header(h, key) == dict_get(h.headers, key)

\* HTTPHeader.set_method
set_method(h, method) == [h EXCEPT !.method = method, !.is_request = TRUE]

\* a set_path that makes the object a request
set_path_marks_request(h, path) == [h EXCEPT !.path = path, !.is_request = TRUE]
\* HTTPHeader.set_path
set_path(h, path) == [h EXCEPT !.path = path]

\* HTTPHeader.set_status_code
set_status_code(h, code) == [h EXCEPT !.status_code = code, !.is_request = FALSE]

\* HTTPHeader.set_status_message
set_status_message(h, message) == [h EXCEPT !.status_message = message]

\* HTTPHeader.set_body
set_body(h, body) == [h EXCEPT !.body = body]

\* a set_version that stores nothing
set_version_lost(h, version) == h
set_version(h, version) == [h EXCEPT !.version = version]
\* a set_header that adds a line whether or not the name is in the map
set_header_appends(h, key, value) == [h EXCEPT !.headers = Append(@, <<key, value>>)]
set_header(h, key, value) == [h EXCEPT !.headers = dict_set(@, key, value)]

\* HTTPHeader.add_header
add_header(h, key, value) == set_header(h, key, value)

\* HTTPHeader.remove_header
remove_header(h, key) ==
  IF dict_has(h.headers, key) THEN [h EXCEPT !.headers = dict_del(@, key)] ELSE h

\* HTTPHeader.generate_header
generate_header(h) ==
  LET first == IF h.is_request
               THEN or(h.method, <<"GET">>) \o <<SP>> \o or(h.path, <<"/">>)
                      \o <<SP>> \o h.version
               ELSE h.version \o <<SP>>
                      \o str(IF h.status_code \in {NoCode, 0} THEN 200 ELSE h.status_code)
                      \o <<SP>> \o or(h.status_message, <<"OK">>)
      fields == [i \in 1..Len(h.headers) |->
                   h.headers[i][1] \o <<COLON, SP>> \o h.headers[i][2]]
      lines == <<first>> \o fields \o <<<<>>>>
                 \o (IF truthy(h.body) THEN <<h.body>> ELSE <<>>)
  IN join(lines, CRLF)

\* HTTPHeader.change_path_to_relative is called by server.py and is not in
\* http_parser.py; modelled from the specification: an absolute-form target
\* loses its scheme and authority, any other target is kept
change_path_to_relative(h) ==
  LET p == h.path
      absolute == Len(p) >= 3 /\ lower(<<p[1]>>) \in {<<"http">>, <<"https">>}
                    /\ p[2] = COLON /\ p[3] = "//"
      \* the authority: a host, or host COLON port
      skip == IF Len(p) >= 6 /\ p[5] = COLON THEN 6
              ELSE IF Len(p) >= 4 THEN 4 ELSE 3
      rest == From(p, skip)
  IN IF p = None \/ ~absolute THEN h
     ELSE [h EXCEPT !.path = IF rest = <<>> THEN <<"/">> ELSE rest]

(***************************************************************************)
(* The inputs: what a client and a destination put on the wire.            *)
(***************************************************************************)
\* the largest number of payload bytes a peer sends after its header block
MaxBody == 2

BUF_SIZE == 1024

\* len(b): the number of bytes of a byte string
Size(tok) ==
  CASE tok \in {"GET", "200", "404", "443"} -> 3
    [] tok \in {"POST", "Host", "http"} -> 4
    [] tok \in {"a.com", "close", "Found"} -> 5
    [] tok \in {"CONNECT"} -> 7
    [] tok \in {"HTTP/1.0", "HTTP/1.1"} -> 8
    [] tok \in {"Connection", "keep-alive"} -> 10
    [] tok \in {"Content-Length"} -> 14
    [] tok \in {"Proxy-Connection"} -> 16
    [] tok \in {"//", "/p", "OK", "80"} -> 2
    [] tok \in {"Not", "Bad", "502"} -> 3
    [] tok = "Gateway" -> 7
    [] tok = "Established" -> 11
    [] tok = "Transfer-Encoding" -> 17
    [] tok = "chunked" -> 7
    [] OTHER -> 1
RECURSIVE len(_)
len(b) == IF b = <<>> THEN 0 ELSE Size(Head(b)) + len(Tail(b))

\* the first n bytes a peer has to say after its header block
ClientBody(n) == SubSeq(<<"x", "y", "z", "w">>, 1, n)
DestBody(n) == SubSeq(<<"s", "t", "u", "v">>, 1, n)

ReqGet ==
  <<"GET", SP, "http", COLON, "//", "a.com", "/p", SP, "HTTP/1.1", CR, LF,
    "Host", COLON, SP, "a.com", CR, LF,
    "Connection", COLON, SP, "keep-alive", CR, LF, CR, LF>>
ReqPost ==
  <<"POST", SP, "http", COLON, "//", "a.com", "/p", SP, "HTTP/1.1", CR, LF,
    "Host", COLON, SP, "a.com", COLON, "80", CR, LF,
    "Content-Length", COLON, SP, "2", CR, LF,
    "Proxy-Connection", COLON, SP, "keep-alive", CR, LF, CR, LF>>
ReqConnect ==
  <<"CONNECT", SP, "a.com", COLON, "443", SP, "HTTP/1.1", CR, LF,
    "Host", COLON, SP, "a.com", COLON, "443", CR, LF, CR, LF>>
ReqConnectNoHost ==
  <<"CONNECT", SP, "a.com", COLON, "443", SP, "HTTP/1.1", CR, LF, CR, LF>>
ReqNoHost == <<"GET", SP, "/p", SP, "HTTP/1.0", CR, LF, CR, LF>>
ReqLf == <<"GET", SP, "/p", SP, "HTTP/1.1", LF, "Host", COLON, SP, "a.com", LF, LF>>
ReqBad ==
  <<"GET", SP, "/p", SP, "HTTP/1.1", CR, LF, "Host", COLON, SP, BAD, CR, LF, CR, LF>>

\* a request body that holds the header terminator pattern
ClientBodyTerminated == <<"x", CR, LF, CR, LF>>

\* what a client may send over one connection
ClientScripts ==
  {ReqGet, ReqConnectNoHost, ReqNoHost, ReqLf, ReqBad, ReqPost \o ClientBodyTerminated}
    \cup {ReqPost \o ClientBody(n) : n \in 0..MaxBody}
    \cup {ReqConnect \o ClientBody(n) : n \in 0..MaxBody}

RespOk ==
  <<"HTTP/1.1", SP, "200", SP, "OK", CR, LF,
    "Content-Length", COLON, SP, "2", CR, LF, CR, LF>>
RespNotFound ==
  <<"HTTP/1.1", SP, "404", SP, "Not", SP, "Found", CR, LF,
    "Connection", COLON, SP, "keep-alive", CR, LF, CR, LF>>

RespChunked ==
  <<"HTTP/1.1", SP, "200", SP, "OK", CR, LF,
    "Transfer-Encoding", COLON, SP, "chunked", CR, LF, CR, LF>>

\* what a destination may send back to a forwarded request: a response, or
\* bytes without a header terminator
DestScripts ==
  {RespNotFound, RespNotFound \o DestBody(1), RespChunked \o DestBody(1)}
    \cup {RespOk \o DestBody(n) : n \in 0..MaxBody}
    \cup {DestBody(n) : n \in 0..MaxBody}

\* what a destination may send into a tunnel
TunnelScripts == {DestBody(n) : n \in 0..MaxBody}

\* an acknowledgement that keeps the client's version
OK_RESPONSE_1_1 ==
  <<"HTTP/1.1", SP, "200", SP, "Connection", SP, "Established", CR, LF, CR, LF>>
OK_RESPONSE ==
  <<"HTTP/1.0", SP, "200", SP, "Connection", SP, "Established", CR, LF, CR, LF>>
ERROR_RESPONSE ==
  <<"HTTP/1.0", SP, "502", SP, "Bad", SP, "Gateway", CR, LF, CR, LF>>

(***************************************************************************)
(* The inputs of an HTTPHeader object taken on its own: a sequence of      *)
(* lines, joined by one of the three line terminators.                     *)
(***************************************************************************)
\* the largest number of calls made on one object, the constructor included
MaxCalls == 3

\* the three line terminators _parse accepts
Eols == {CRLF, <<LF>>, <<CR>>}

RequestLines ==
  { <<>>,
    << <<"GET">> >>,
    << <<"GET">>, <<"Host", COLON, SP, "a.com">> >>,
    << <<"GET", SP, "/p", SP, "HTTP/1.1">>, <<"Host", COLON>> >>,
    << <<"GET", SP, "/p", SP, "HTTP/1.1">>, <<"Host", COLON, SP, "a.com">> >>,
    << <<"GET", SP, "https", COLON, "//", "a.com", "/p", SP, "HTTP/1.1">>,
       <<"Host", COLON, SP, "a.com">> >>,
    << <<"GET", SP, "https", COLON, "//", "a.com", "/p", SP, "HTTP/1.1">>,
       <<"Host", COLON, SP, "a.com", COLON, "80">>,
       <<"Connection", COLON, SP, "keep-alive">> >>,
    << <<"POST", SP, "/p", SP, "HTTP/1.1">>, <<"host", COLON, SP, "a.com">>,
       <<>>, <<"x">>, <<"y">> >> }

ResponseLines ==
  { << <<"HTTP/1.1">> >>,
    << <<"HTTP/1.1", SP, "0", SP, "OK">> >>,
    << <<"HTTP/1.1", SP, "abc">> >>,
    << <<"HTTP/1.1", SP, "404">> >>,
    << <<"HTTP/1.1", SP, "404", SP, "Not", SP, "Found">>,
       <<"Connection", COLON, SP, "keep-alive">> >>,
    << <<"HTTP/1.1", SP, "200", SP, "OK">>, <<"Content-Length", COLON, SP, "2">>,
       <<>>, <<"s">> >> }

\* the texts an object is made from: the lines, the terminator that joins
\* them, and whether the last line is terminated too
Inputs ==
  [lines : RequestLines \cup ResponseLines, eol : Eols, term : BOOLEAN]

\* the text of an input
Text(in) ==
  IF in.lines = <<>> THEN <<>>
  ELSE join(in.lines, in.eol) \o (IF in.term THEN in.eol ELSE <<>>)

\* the header names and values the calls are made with
Keys == {<<"Host">>, <<"X-A">>}
Values == {<<"b.com">>}

\* the first-line fields and the body the calls are made with
Methods == {<<"POST">>}
Paths == {<<"/p">>}
Versions == {<<"HTTP/1.0">>}
Codes == {404}
Messages == {<<"Found">>}
Bodies == {<<"x">>}

(***************************************************************************)
(* Many connections: the sockets of the server, of the accepted clients    *)
(* and of the destinations.                                                *)
(***************************************************************************)
\* the number of connections the listener accepts
MaxTasks == 3
Tasks == 1..MaxTasks

listener == <<"listener", 0>>
client_socket(t) == <<"client", t>>
dest_socket(t) == <<"dest", t>>

(***************************************************************************)
(* One connection task: server.worker and the two request handlers, from   *)
(* the moment server() has accepted the client socket and started the      *)
(* thread.  Sockets are named "listener", "client" and "dest".             *)
(***************************************************************************)
VARIABLES
  pc,          \* where the worker thread is
  packet_buf,  \* worker: the bytes accumulated, then the bytes past the header
  delim,       \* worker: the terminator the buffer is split at
  header,      \* the parsed request
  data,        \* worker: what the last recv of the header loop returned; None
               \* before the first
  resp_buf,    \* process_non_connection_request: the response bytes accumulated
  resp_header, \* the parsed response
  has_data,    \* process_connection_request: the sockets select() reported
  sockets,     \* the global list of sockets
  open,        \* the sockets that exist and are not closed
  cliTodo,     \* what the client has still to send
  cliSent,     \* what the client has sent
  cliRx,       \* sent by the client, not yet read by the proxy
  cliState,    \* "open", "eof" (the client closed) or "reset"
  toClient,    \* the writes of the proxy to the client socket, in order
  dstTodo,     \* what the destination has still to send
  dstSent,     \* what the destination has sent
  dstRx,       \* sent by the destination, not yet read by the proxy
  dstState,    \* "idle" (not connected), "open" or "eof" (the destination closed)
  toDest,      \* the writes of the proxy to the destination socket, in order
  task,        \* many connections: where each connection task is
  input,       \* an HTTPHeader object on its own: the text it is made from
  msg,         \* the HTTPHeader object
  before,      \* the object as it was before the last call
  call,        \* the last call made on the object, with its arguments
  ret,         \* what the last call returned
  hist         \* the names of the calls made so far

vars ==
  <<pc, packet_buf, delim, header, data, resp_buf, resp_header, has_data, sockets,
    open, cliTodo, cliSent, cliRx, cliState, toClient, dstTodo, dstSent, dstRx,
    dstState, toDest, task, input, msg, before, call, ret, hist>>

\* the state of an HTTPHeader object taken on its own
unitVars == <<input, msg, before, call, ret, hist>>

workerVars == <<packet_buf, delim, header, data, resp_buf, resp_header, has_data>>
clientVars == <<cliTodo, cliSent, cliRx, cliState>>
destVars == <<dstTodo, dstSent, dstRx, dstState>>

\* the bytes of a sequence of writes
RECURSIVE Flat(_)
Flat(writes) == IF writes = <<>> THEN <<>> ELSE Head(writes) \o Flat(Tail(writes))

\* the task has ended: the handler returned, or the thread died of an
\* exception nothing caught
Ended == pc \in {"done", "crashed"}

\* no HTTPHeader object is looked at on its own
UnitIdle ==
  /\ input = [lines |-> <<>>, eol |-> CRLF, term |-> FALSE]
  /\ msg = init_fields
  /\ before = init_fields
  /\ call = <<>>
  /\ ret = None
  /\ hist = <<>>

\* server() up to thread.start(): the listener is registered, the accepted
\* client socket is not
Init ==
  /\ UnitIdle
  /\ task = [t \in Tasks |-> "none"]
  /\ pc = "recv_header"
  /\ packet_buf = <<>>
  /\ delim = CRLFCRLF
  /\ header = init_fields
  /\ data = None
  /\ resp_buf = <<>>
  /\ resp_header = init_fields
  /\ has_data = {}
  /\ sockets = <<"listener">>
  /\ open = {"listener", "client"}
  /\ cliTodo \in ClientScripts
  /\ cliSent = <<>>
  /\ cliRx = <<>>
  /\ cliState = "open"
  /\ toClient = <<>>
  /\ dstTodo = <<>>
  /\ dstSent = <<>>
  /\ dstRx = <<>>
  /\ dstState = "idle"
  /\ toDest = <<>>

(***************************************************************************)
(* The peers.                                                              *)
(***************************************************************************)
\* where a peer's stream may be cut into segments: in the middle of the first
\* header terminator, and anywhere past it that is not in the middle of a
\* terminator pattern of the body
header_end(stream) ==
  LET ends == {find(stream, CRLFCRLF) + 4, find(stream, LFLF) + 2} \ {3, 1}
  IN IF ends = {} THEN Len(stream) ELSE Min(ends)
in_body_pattern(stream, n) ==
  \E i \in header_end(stream)..(Len(stream) - 4) :
    SubSeq(stream, i + 1, i + 4) = CRLFCRLF /\ i < n /\ n < i + 4
Cuts(stream) ==
  {n \in 1..Len(stream) : n >= header_end(stream) - 2 /\ ~in_body_pattern(stream, n)}

\* the client sends its next bytes
ClientSend ==
  /\ ~Ended /\ cliState = "open" /\ cliTodo # <<>>
  /\ \E k \in 1..Len(cliTodo) :
       /\ Len(cliSent) + k \in Cuts(cliSent \o cliTodo)
       /\ cliRx' = cliRx \o SubSeq(cliTodo, 1, k)
       /\ cliSent' = cliSent \o SubSeq(cliTodo, 1, k)
       /\ cliTodo' = From(cliTodo, k)
  /\ UNCHANGED <<pc, workerVars, sockets, open, cliState, toClient, destVars, toDest>>
  /\ UNCHANGED <<task, unitVars>>

\* the client closes its side in an orderly way
ClientClose ==
  /\ ~Ended /\ cliState = "open"
  /\ cliState' = "eof"
  /\ cliTodo' = <<>>
  /\ UNCHANGED <<pc, workerVars, sockets, open, cliSent, cliRx, toClient, destVars,
                 toDest>>
  /\ UNCHANGED <<task, unitVars>>

\* the client resets the connection: what it sent and was not read is gone
ClientReset ==
  /\ ~Ended /\ cliState = "open"
  /\ cliState' = "reset"
  /\ cliTodo' = <<>>
  /\ cliRx' = <<>>
  /\ UNCHANGED <<pc, workerVars, sockets, open, cliSent, toClient, destVars, toDest>>
  /\ UNCHANGED <<task, unitVars>>

\* the destination sends its next bytes
DestSend ==
  /\ ~Ended /\ dstState = "open" /\ dstTodo # <<>>
  /\ \E k \in 1..Len(dstTodo) :
       /\ Len(dstSent) + k \in Cuts(dstSent \o dstTodo)
       /\ dstRx' = dstRx \o SubSeq(dstTodo, 1, k)
       /\ dstSent' = dstSent \o SubSeq(dstTodo, 1, k)
       /\ dstTodo' = From(dstTodo, k)
  /\ UNCHANGED <<pc, workerVars, sockets, open, clientVars, toClient, dstState, toDest>>
  /\ UNCHANGED <<task, unitVars>>

\* the destination closes its side
DestClose ==
  /\ ~Ended /\ dstState = "open"
  /\ dstState' = "eof"
  /\ dstTodo' = <<>>
  /\ UNCHANGED <<pc, workerVars, sockets, open, clientVars, toClient, dstSent, dstRx,
                 toDest>>
  /\ UNCHANGED <<task, unitVars>>

(***************************************************************************)
(* socket and registry primitives                                          *)
(***************************************************************************)
\* sock.recv(BUF_SIZE) when rx holds bytes: the first BUF_SIZE bytes at most
recv(rx) ==
  LET ks == {k \in 1..Len(rx) : len(SubSeq(rx, 1, k)) <= BUF_SIZE}
  IN SubSeq(rx, 1, CHOOSE k \in ks : \A j \in ks : j <= k)

\* list.remove(sock): the first occurrence
list_remove(l, sock) ==
  LET i == Min({j \in 1..Len(l) : l[j] = sock})
  IN SubSeq(l, 1, i - 1) \o SubSeq(l, i + 1, Len(l))

\* a cleanup_socket that empties the registry
cleanup_socket_clears(reg, sock) == <<>>

\* cleanup_socket(sock): the registry afterwards
cleanup_socket(reg, sock) ==
  IF \E j \in 1..Len(reg) : reg[j] = sock THEN list_remove(reg, sock) ELSE reg

\* a finally clause that closes the sockets and leaves the registry alone
Finally_close_only ==
  /\ sockets' = sockets
  /\ open' = open \ {"dest", "client"}
  /\ pc' = "done"

\* the finally clause of both handlers: cleanup_socket(dest_socket), then
\* cleanup_socket(client_socket), and the handler and the worker return
Finally ==
  /\ sockets' = cleanup_socket(cleanup_socket(sockets, "dest"), "client")
  /\ open' = open \ {"dest", "client"}
  /\ pc' = "done"

(***************************************************************************)
(* server.get_host_port                                                     *)
(***************************************************************************)
\* the Host value get_host_port reads
host_value(h) == or(get_header(h, <<"Host">>), get_header(h, <<"host">>))

\* get_host_port raises: ':' in None (TypeError), a value with more than
\* one ':' or a port that is no number (ValueError), None.lower()
\* (AttributeError)
get_host_port_raises(h) ==
  LET dest == host_value(h)
  IN \/ dest = None
     \/ /\ dest # None /\ contains(dest, <<COLON>>)
        /\ \/ Len(split(dest, <<COLON>>)) # 2
           \/ ~is_int(split(dest, <<COLON>>)[2])
     \/ dest # None /\ ~contains(dest, <<COLON>>) /\ get_path(h) = None

\* get_host_port when it returns: <<host, port>>
get_host_port(h) ==
  LET dest == host_value(h)
  IN IF contains(dest, <<COLON>>)
     THEN <<split(dest, <<COLON>>)[1], int(split(dest, <<COLON>>)[2])>>
     ELSE <<dest, IF contains(lower(get_path(h)), <<"https", COLON, "//">>)
                  THEN 443 ELSE 80>>

(***************************************************************************)
(* server.worker                                                           *)
(***************************************************************************)
\* the assignment to delim in the loop body, made before the recv
loop_delim(buf, d) == IF find(buf, LFLF) # -1 THEN LFLF ELSE d

\* the condition of the header loop
header_incomplete(buf, d) == find(buf, d) = -1 /\ find(buf, LFLF) = -1

\* one pass of the header loop: recv returns bytes
WorkerRecvHeader ==
  /\ pc = "recv_header" /\ cliState # "reset" /\ cliRx # <<>>
  /\ data' = recv(cliRx)
  /\ delim' = loop_delim(packet_buf, delim)
  /\ packet_buf' = packet_buf \o data'
  /\ cliRx' = From(cliRx, Len(data'))
  /\ pc' = IF header_incomplete(packet_buf', delim') THEN "recv_header" ELSE "split"
  /\ UNCHANGED <<header, resp_buf, resp_header, has_data, sockets, open, cliTodo,
                 cliSent, cliState, toClient, destVars, toDest>>
  /\ UNCHANGED <<task, unitVars>>

\* one pass of the header loop: the client has closed and recv returns b""
WorkerRecvHeaderEmpty ==
  /\ pc = "recv_header" /\ cliState = "eof" /\ cliRx = <<>>
  /\ data' = <<>>
  /\ delim' = loop_delim(packet_buf, delim)
  /\ packet_buf' = packet_buf \o data'
  /\ pc' = IF header_incomplete(packet_buf', delim') THEN "recv_header" ELSE "split"
  /\ UNCHANGED <<header, resp_buf, resp_header, has_data, sockets, open, clientVars,
                 toClient, destVars, toDest>>
  /\ UNCHANGED <<task, unitVars>>

\* the header loop's recv raises TimeoutError (socket.timeout is TimeoutError
\* from Python 3.10 on): nothing arrived in 5 s
WorkerRecvHeaderTimeout ==
  /\ pc = "recv_header" /\ cliState = "open" /\ cliRx = <<>>
  /\ sockets' = cleanup_socket(sockets, "client")
  /\ open' = open \ {"client"}
  /\ pc' = "done"
  /\ UNCHANGED <<workerVars, clientVars, toClient, destVars, toDest>>
  /\ UNCHANGED <<task, unitVars>>

\* a reset handler that returns without cleanup_socket
WorkerRecvHeaderReset_no_cleanup ==
  /\ pc = "recv_header" /\ cliState = "reset"
  /\ pc' = "done"
  /\ UNCHANGED <<workerVars, sockets, open, clientVars, toClient, destVars, toDest>>
  /\ UNCHANGED <<task, unitVars>>

\* the header loop's recv raises ConnectionResetError
WorkerRecvHeaderReset ==
  /\ pc = "recv_header" /\ cliState = "reset"
  /\ sockets' = cleanup_socket(sockets, "client")
  /\ open' = open \ {"client"}
  /\ pc' = "done"
  /\ UNCHANGED <<workerVars, clientVars, toClient, destVars, toDest>>
  /\ UNCHANGED <<task, unitVars>>

\* the rewrites the worker makes on the parsed request
worker_rewrite(h) ==
  LET h1 == set_version(set_header(h, <<"Connection">>, <<"close">>), <<"HTTP/1.0">>)
  IN IF truthy(get_header(h1, <<"Proxy-Connection">>))
     THEN set_header(h1, <<"Proxy-Connection">>, <<"close">>)
     ELSE h1

\* the handler the worker calls
dispatch(h) == IF get_method(h) = <<"CONNECT">> THEN "tunnel_connect" ELSE "pipe_connect"

\* from the split of the buffer to the call of the handler.  packet_buf[1]
\* raises IndexError when delim is not in the buffer and decode raises on an
\* invalid byte; the worker catches neither and the thread dies
WorkerDispatch ==
  /\ pc = "split"
  /\ LET parts == split1(packet_buf, delim)
     IN IF Len(parts) = 1
        THEN /\ pc' = "crashed"
             /\ UNCHANGED <<packet_buf, header, sockets, open>>
        ELSE IF ~decodable(parts[1])
        THEN /\ packet_buf' = parts[2]
             /\ pc' = "crashed"
             /\ UNCHANGED <<header, sockets, open>>
        ELSE /\ packet_buf' = parts[2]
             /\ header' = worker_rewrite(HTTPHeader(decode(parts[1])))
             /\ sockets' = Append(sockets, "dest")
             /\ open' = open \cup {"dest"}
             /\ pc' = dispatch(header')
  /\ UNCHANGED <<delim, data, resp_buf, resp_header, has_data, clientVars, toClient,
                 destVars, toDest>>
  /\ UNCHANGED <<task, unitVars>>

(***************************************************************************)
(* server.process_connection_request                                       *)
(***************************************************************************)
\* get_host_port raises, or connect raises and so does the send of the 502,
\* or the send of the 200 raises: except Exception, then finally
TunnelConnectRaises ==
  /\ pc = "tunnel_connect"
  /\ get_host_port_raises(header) \/ cliState = "reset"
  /\ Finally
  /\ UNCHANGED <<workerVars, clientVars, toClient, destVars, toDest>>
  /\ UNCHANGED <<task, unitVars>>

\* connect raises: the 502 is sent, both sockets are cleaned up
TunnelConnectFails ==
  /\ pc = "tunnel_connect"
  /\ ~get_host_port_raises(header) /\ cliState # "reset"
  /\ toClient' = Append(toClient, encode(ERROR_RESPONSE))
  /\ Finally
  /\ UNCHANGED <<workerVars, clientVars, destVars, toDest>>
  /\ UNCHANGED <<task, unitVars>>

\* connect returns: the 200 is sent and the relay begins
TunnelConnectOk ==
  /\ pc = "tunnel_connect"
  /\ ~get_host_port_raises(header) /\ cliState # "reset"
  /\ dstState' = "open"
  /\ dstTodo' \in TunnelScripts
  /\ toClient' = Append(toClient, encode(OK_RESPONSE))
  /\ pc' = "relay_select"
  /\ UNCHANGED <<workerVars, sockets, open, clientVars, dstSent, dstRx, toDest>>
  /\ UNCHANGED <<task, unitVars>>

\* what select reports readable: a socket with bytes to read, or whose
\* peer has closed or reset
readable ==
  (IF cliRx # <<>> \/ cliState # "open" THEN {"client"} ELSE {})
    \cup (IF dstRx # <<>> \/ dstState = "eof" THEN {"dest"} ELSE {})

\* select returns a non-empty list (an empty one leads back to select)
RelaySelect ==
  /\ pc = "relay_select"
  /\ readable # {}
  /\ has_data' = readable
  /\ pc' = IF "client" \in readable THEN "relay_client" ELSE "relay_dest"
  /\ UNCHANGED <<packet_buf, delim, header, data, resp_buf, resp_header, sockets,
                 open, clientVars, toClient, destVars, toDest>>
  /\ UNCHANGED <<task, unitVars>>

\* a relay that, on an empty read from the client, still services the
\* destination socket select reported
RelayClient_services_dest ==
  /\ pc = "relay_client"
  /\ IF cliState = "reset"
     THEN /\ Finally
          /\ UNCHANGED <<cliRx, toDest>>
     ELSE IF cliRx = <<>>
     THEN /\ IF "dest" \in has_data
             THEN pc' = "relay_dest" /\ UNCHANGED <<sockets, open>>
             ELSE Finally
          /\ UNCHANGED <<cliRx, toDest>>
     ELSE /\ cliRx' = From(cliRx, Len(recv(cliRx)))
          /\ toDest' = Append(toDest, recv(cliRx))
          /\ pc' = IF "dest" \in has_data THEN "relay_dest" ELSE "relay_select"
          /\ UNCHANGED <<sockets, open>>
  /\ UNCHANGED <<packet_buf, delim, header, data, resp_buf, resp_header, has_data, cliTodo,
                 cliSent, cliState, toClient, destVars>>
  /\ UNCHANGED <<task, unitVars>>

\* a relay that goes back to select after it has serviced the client
RelayClient_skips_dest ==
  /\ pc = "relay_client"
  /\ IF cliState = "reset"
     THEN /\ Finally
          /\ UNCHANGED <<cliRx, toDest>>
     ELSE IF cliRx = <<>>
     THEN /\ Finally
          /\ UNCHANGED <<cliRx, toDest>>
     ELSE /\ cliRx' = From(cliRx, Len(recv(cliRx)))
          /\ toDest' = Append(toDest, recv(cliRx))
          /\ pc' = "relay_select"
          /\ UNCHANGED <<sockets, open>>
  /\ UNCHANGED <<packet_buf, delim, header, data, resp_buf, resp_header, has_data, cliTodo,
                 cliSent, cliState, toClient, destVars>>
  /\ UNCHANGED <<task, unitVars>>

\* if client_socket in has_data
RelayClient ==
  /\ pc = "relay_client"
  /\ IF cliState = "reset"
     THEN \* recv raises
          /\ Finally
          /\ UNCHANGED <<cliRx, toDest>>
     ELSE IF cliRx = <<>>
     THEN \* data == b"": both sockets closed, break, finally
          /\ Finally
          /\ UNCHANGED <<cliRx, toDest>>
     ELSE /\ cliRx' = From(cliRx, Len(recv(cliRx)))
          /\ toDest' = Append(toDest, recv(cliRx))
          /\ pc' = IF "dest" \in has_data THEN "relay_dest" ELSE "relay_select"
          /\ UNCHANGED <<sockets, open>>
  /\ UNCHANGED <<packet_buf, delim, header, data, resp_buf, resp_header, has_data, cliTodo,
                 cliSent, cliState, toClient, destVars>>
  /\ UNCHANGED <<task, unitVars>>

\* if dest_socket in has_data
RelayDest ==
  /\ pc = "relay_dest"
  /\ IF dstRx = <<>>
     THEN \* data == b"": both sockets closed, break, finally
          /\ Finally
          /\ UNCHANGED <<dstRx, toClient>>
     ELSE IF cliState = "reset"
     THEN \* client_socket.send raises
          /\ dstRx' = From(dstRx, Len(recv(dstRx)))
          /\ Finally
          /\ UNCHANGED toClient
     ELSE /\ dstRx' = From(dstRx, Len(recv(dstRx)))
          /\ toClient' = Append(toClient, recv(dstRx))
          /\ pc' = "relay_select"
          /\ UNCHANGED <<sockets, open>>
  /\ UNCHANGED <<packet_buf, delim, header, data, resp_buf, resp_header, has_data,
                 clientVars, dstTodo, dstSent, dstState, toDest>>
  /\ UNCHANGED <<task, unitVars>>

(***************************************************************************)
(* server.process_non_connection_request                                   *)
(***************************************************************************)
\* a handler that answers a failed connect with the 502 of the tunnel
PipeConnectRaises_sends_502 ==
  /\ pc = "pipe_connect"
  /\ toClient' = Append(toClient, encode(ERROR_RESPONSE))
  /\ Finally
  /\ UNCHANGED <<workerVars, clientVars, destVars, toDest>>
  /\ UNCHANGED <<task, unitVars>>

\* get_host_port or connect raises: except Exception, then finally
PipeConnectRaises ==
  /\ pc = "pipe_connect"
  /\ Finally
  /\ UNCHANGED <<workerVars, clientVars, toClient, destVars, toDest>>
  /\ UNCHANGED <<task, unitVars>>

\* get_host_port and connect return
PipeConnectOk ==
  /\ pc = "pipe_connect"
  /\ ~get_host_port_raises(header)
  /\ dstState' = "open"
  /\ dstTodo' \in DestScripts
  /\ pc' = "pipe_send"
  /\ UNCHANGED <<workerVars, sockets, open, clientVars, toClient, dstSent, dstRx,
                 toDest>>
  /\ UNCHANGED <<task, unitVars>>

\* the rewrites the handler makes on the request before it forwards it
pipe_rewrite(h) ==
  set_header(
    set_version(set_header(change_path_to_relative(h), <<"Connection">>, <<"close">>),
                <<"HTTP/1.0">>),
    <<"Proxy-Connection">>, <<"close">>)

\* a send of the header alone, without what was read past it
request_bytes_header_only(h, buf) == encode(generate_header(h))
\* the bytes of the one send that forwards the request
request_bytes(h, buf) == encode(generate_header(h)) \o buf

\* the request declares a body
declares_body(h) ==
  truthy(get_header(h, <<"Content-Length">>)) \/ truthy(get_header(h, <<"Transfer-Encoding">>))

\* a handler that goes on to the request body without sending the header
PipeSendRequest_no_send ==
  /\ pc = "pipe_send"
  /\ header' = pipe_rewrite(header)
  /\ pc' = IF declares_body(header') THEN "req_body" ELSE "resp_header"
  /\ UNCHANGED <<packet_buf, delim, data, resp_buf, resp_header, has_data, sockets,
                 open, clientVars, toClient, destVars, toDest>>
  /\ UNCHANGED <<task, unitVars>>

\* the request header and the bytes read past it go to the destination
PipeSendRequest ==
  /\ pc = "pipe_send"
  /\ header' = pipe_rewrite(header)
  /\ toDest' = Append(toDest, request_bytes(header', packet_buf))
  /\ pc' = IF declares_body(header') THEN "req_body" ELSE "resp_header"
  /\ UNCHANGED <<packet_buf, delim, data, resp_buf, resp_header, has_data, sockets,
                 open, clientVars, toClient, destVars>>
  /\ UNCHANGED <<task, unitVars>>

\* one pass of the request body loop; client_payload stays b"", so the loop
\* ends on a timeout or an empty read only
PipeReqBody ==
  /\ pc = "req_body"
  /\ IF cliState = "reset"
     THEN \* recv raises ConnectionResetError
          /\ Finally
          /\ UNCHANGED <<cliRx, toDest>>
     ELSE IF cliRx = <<>>
     THEN \* socket.timeout, or not data: break
          /\ pc' = "resp_header"
          /\ UNCHANGED <<cliRx, toDest, sockets, open>>
     ELSE /\ cliRx' = From(cliRx, Len(recv(cliRx)))
          /\ toDest' = Append(toDest, recv(cliRx))
          /\ pc' = "req_body"
          /\ UNCHANGED <<sockets, open>>
  /\ UNCHANGED <<packet_buf, delim, header, data, resp_buf, resp_header, has_data, cliTodo,
                 cliSent, cliState, toClient, destVars>>
  /\ UNCHANGED <<task, unitVars>>

\* one pass of the response header loop
PipeRespHeader ==
  /\ pc = "resp_header"
  /\ IF dstRx = <<>>
     THEN \* socket.timeout, or not response: break
          /\ pc' = "resp_split"
          /\ UNCHANGED <<resp_buf, dstRx>>
     ELSE /\ dstRx' = From(dstRx, Len(recv(dstRx)))
          /\ resp_buf' = resp_buf \o recv(dstRx)
          /\ pc' = IF find(resp_buf', CRLFCRLF) = -1 THEN "resp_header" ELSE "resp_split"
  /\ UNCHANGED <<packet_buf, delim, header, data, resp_header, has_data, sockets, open,
                 clientVars, toClient, dstTodo, dstSent, dstState, toDest>>
  /\ UNCHANGED <<task, unitVars>>

\* the rewrites the handler makes on the parsed response
resp_rewrite(h) ==
  set_header(set_header(set_version(h, <<"HTTP/1.0">>), <<"Connection">>, <<"close">>),
             <<"Proxy-Connection">>, <<"close">>)

\* int(content_length) raises ValueError
more_raises(h) ==
  truthy(get_header(h, <<"Content-Length">>)) /\ ~is_int(get_header(h, <<"Content-Length">>))

\* a test that does not look at the number of bytes already sent
more_to_read_any_length(h, buf) ==
  \/ truthy(get_header(h, <<"Content-Length">>))
  \/ truthy(get_header(h, <<"Transfer-Encoding">>))

\* content_length and len(resp_buf) < int(content_length)
\*   or resp_header.get_header("Transfer-Encoding")
more_to_read(h, buf) ==
  \/ truthy(get_header(h, <<"Content-Length">>)) /\ len(buf) < int(get_header(h, <<"Content-Length">>))
  \/ truthy(get_header(h, <<"Transfer-Encoding">>))

\* from the split of resp_buf to the test that opens the response body loop
PipeForwardResponse ==
  /\ pc = "resp_split"
  /\ LET parts == split1(resp_buf, CRLFCRLF)
     IN IF Len(parts) = 1
        THEN \* resp_buf.split(...)[1] raises IndexError
             /\ Finally
             /\ UNCHANGED <<resp_buf, resp_header, toClient>>
        ELSE IF ~decodable(parts[1])
        THEN \* raw_header.decode() raises
             /\ resp_buf' = parts[2]
             /\ Finally
             /\ UNCHANGED <<resp_header, toClient>>
        ELSE IF cliState = "reset"
        THEN \* client_socket.send raises
             /\ resp_buf' = parts[2]
             /\ resp_header' = resp_rewrite(HTTPHeader(decode(parts[1])))
             /\ Finally
             /\ UNCHANGED toClient
        ELSE /\ resp_buf' = parts[2]
             /\ resp_header' = resp_rewrite(HTTPHeader(decode(parts[1])))
             /\ toClient' = toClient \o <<encode(generate_header(resp_header')), resp_buf'>>
             /\ IF ~more_raises(resp_header') /\ more_to_read(resp_header', resp_buf')
                THEN pc' = "resp_body" /\ UNCHANGED <<sockets, open>>
                ELSE Finally
  /\ UNCHANGED <<packet_buf, delim, header, data, has_data, clientVars, destVars, toDest>>
  /\ UNCHANGED <<task, unitVars>>

\* one pass of the response body loop
PipeRespBody ==
  /\ pc = "resp_body"
  /\ IF dstRx = <<>>
     THEN \* socket.timeout, or not response: break, finally
          /\ Finally
          /\ UNCHANGED <<dstRx, toClient>>
     ELSE IF cliState = "reset"
     THEN \* client_socket.send raises
          /\ dstRx' = From(dstRx, Len(recv(dstRx)))
          /\ Finally
          /\ UNCHANGED toClient
     ELSE /\ dstRx' = From(dstRx, Len(recv(dstRx)))
          /\ toClient' = Append(toClient, recv(dstRx))
          /\ pc' = "resp_body"
          /\ UNCHANGED <<sockets, open>>
  /\ UNCHANGED <<packet_buf, delim, header, data, resp_buf, resp_header, has_data,
                 clientVars, dstTodo, dstSent, dstState, toDest>>
  /\ UNCHANGED <<task, unitVars>>

(***************************************************************************)
(* The specification                                                       *)
(***************************************************************************)
Peers == ClientSend \/ ClientClose \/ ClientReset \/ DestSend \/ DestClose

Worker ==
  \/ WorkerRecvHeader \/ WorkerRecvHeaderEmpty \/ WorkerRecvHeaderTimeout
  \/ WorkerRecvHeaderReset \/ WorkerDispatch
  \/ TunnelConnectRaises \/ TunnelConnectFails \/ TunnelConnectOk
  \/ RelaySelect \/ RelayClient \/ RelayDest
  \/ PipeConnectRaises \/ PipeConnectOk \/ PipeSendRequest \/ PipeReqBody
  \/ PipeRespHeader \/ PipeForwardResponse \/ PipeRespBody

Next == Peers \/ Worker

Spec == Init /\ [][Next]_vars

\* the connections that ask for a tunnel
ConnectScripts ==
  {ReqConnectNoHost} \cup {ReqConnect \o ClientBody(n) : n \in 0..MaxBody}

TunnelInit == Init /\ cliTodo \in ConnectScripts

\* the steps of the worker on such a connection
TunnelWorker ==
  \/ WorkerRecvHeader \/ WorkerRecvHeaderEmpty \/ WorkerRecvHeaderTimeout
  \/ WorkerRecvHeaderReset \/ WorkerDispatch
  \/ TunnelConnectRaises \/ TunnelConnectFails \/ TunnelConnectOk
  \/ RelaySelect \/ RelayClient \/ RelayDest

TunnelNext == Peers \/ TunnelWorker

\* the worker is a thread of its own: while the relay loop can take a step
\* it takes one
TunnelSpec ==
  /\ TunnelInit /\ [][TunnelNext]_vars
  /\ WF_vars(RelaySelect) /\ WF_vars(RelayClient) /\ WF_vars(RelayDest)

(***************************************************************************)
(* An HTTPHeader object on its own: it is made from a text, then methods   *)
(* are called on it.                                                       *)
(***************************************************************************)
\* no connection task runs
TaskIdle ==
  /\ pc = "idle"
  /\ packet_buf = <<>>
  /\ delim = CRLFCRLF
  /\ header = init_fields
  /\ data = None
  /\ resp_buf = <<>>
  /\ resp_header = init_fields
  /\ has_data = {}
  /\ cliTodo = <<>> /\ cliSent = <<>> /\ cliRx = <<>> /\ cliState = "open"
  /\ dstTodo = <<>> /\ dstSent = <<>> /\ dstRx = <<>> /\ dstState = "idle"
  /\ toClient = <<>> /\ toDest = <<>>

taskVars ==
  <<pc, workerVars, clientVars, toClient, destVars, toDest>>

UnitInit ==
  /\ TaskIdle
  /\ sockets = <<>>
  /\ open = {}
  /\ task = [t \in Tasks |-> "none"]
  /\ input \in Inputs
  /\ msg = init_fields
  /\ before = init_fields
  /\ call = <<>>
  /\ ret = None
  /\ hist = <<>>

\* a method can be called: the object exists and the bound is not reached
CanCall == hist # <<>> /\ Len(hist) < MaxCalls

\* HTTPHeader(header_string)
Construct ==
  /\ hist = <<>>
  /\ msg' = HTTPHeader(Text(input))
  /\ before' = msg
  /\ call' = <<"HTTPHeader">>
  /\ ret' = None
  /\ hist' = <<"HTTPHeader">>
  /\ UNCHANGED <<input, taskVars, sockets, open, task>>

\* header.set_header(key, value)
CallSetHeader ==
  /\ CanCall
  /\ \E key \in Keys, value \in Values :
       /\ msg' = set_header(msg, key, value)
       /\ call' = <<"set_header", key, value>>
  /\ before' = msg
  /\ ret' = None
  /\ hist' = Append(hist, "set_header")
  /\ UNCHANGED <<input, taskVars, sockets, open, task>>

\* header.remove_header(key)
CallRemoveHeader ==
  /\ CanCall
  /\ \E key \in Keys :
       /\ msg' = remove_header(msg, key)
       /\ call' = <<"remove_header", key>>
  /\ before' = msg
  /\ ret' = None
  /\ hist' = Append(hist, "remove_header")
  /\ UNCHANGED <<input, taskVars, sockets, open, task>>

\* header.get_header(key)
CallGetHeader ==
  /\ CanCall
  /\ \E key \in Keys :
       /\ ret' = get_header(msg, key)
       /\ call' = <<"get_header", key>>
  /\ before' = msg
  /\ hist' = Append(hist, "get_header")
  /\ UNCHANGED <<msg, input, taskVars, sockets, open, task>>

\* header.generate_header()
CallGenerateHeader ==
  /\ CanCall
  /\ ret' = generate_header(msg)
  /\ call' = <<"generate_header">>
  /\ before' = msg
  /\ hist' = Append(hist, "generate_header")
  /\ UNCHANGED <<msg, input, taskVars, sockets, open, task>>

\* HTTPHeader(generated): a second object made from the text the first
\* one generated
Reconstruct ==
  /\ CanCall
  /\ call = <<"generate_header">>
  /\ msg' = HTTPHeader(ret)
  /\ before' = msg
  /\ call' = <<"HTTPHeader">>
  /\ ret' = None
  /\ hist' = Append(hist, "HTTPHeader")
  /\ UNCHANGED <<input, taskVars, sockets, open, task>>

\* get_host_port(header): the pair it returns, or the exception it raises
CallGetHostPort ==
  /\ CanCall
  /\ ret' = IF get_host_port_raises(msg) THEN <<"raise">> ELSE get_host_port(msg)
  /\ call' = <<"get_host_port">>
  /\ before' = msg
  /\ hist' = Append(hist, "get_host_port")
  /\ UNCHANGED <<msg, input, taskVars, sockets, open, task>>

\* header.set_method(method)
CallSetMethod ==
  /\ CanCall
  /\ \E method \in Methods :
       /\ msg' = set_method(msg, method)
       /\ call' = <<"set_method", method>>
  /\ before' = msg
  /\ ret' = None
  /\ hist' = Append(hist, "set_method")
  /\ UNCHANGED <<input, taskVars, sockets, open, task>>

\* header.set_path(path)
CallSetPath ==
  /\ CanCall
  /\ \E path \in Paths :
       /\ msg' = set_path(msg, path)
       /\ call' = <<"set_path", path>>
  /\ before' = msg
  /\ ret' = None
  /\ hist' = Append(hist, "set_path")
  /\ UNCHANGED <<input, taskVars, sockets, open, task>>

\* header.set_version(version)
CallSetVersion ==
  /\ CanCall
  /\ \E version \in Versions :
       /\ msg' = set_version(msg, version)
       /\ call' = <<"set_version", version>>
  /\ before' = msg
  /\ ret' = None
  /\ hist' = Append(hist, "set_version")
  /\ UNCHANGED <<input, taskVars, sockets, open, task>>

\* header.set_status_code(code)
CallSetStatusCode ==
  /\ CanCall
  /\ \E code \in Codes :
       /\ msg' = set_status_code(msg, code)
       /\ call' = <<"set_status_code", code>>
  /\ before' = msg
  /\ ret' = None
  /\ hist' = Append(hist, "set_status_code")
  /\ UNCHANGED <<input, taskVars, sockets, open, task>>

\* header.set_status_message(message)
CallSetStatusMessage ==
  /\ CanCall
  /\ \E message \in Messages :
       /\ msg' = set_status_message(msg, message)
       /\ call' = <<"set_status_message", message>>
  /\ before' = msg
  /\ ret' = None
  /\ hist' = Append(hist, "set_status_message")
  /\ UNCHANGED <<input, taskVars, sockets, open, task>>

\* header.set_body(body)
CallSetBody ==
  /\ CanCall
  /\ \E body \in Bodies :
       /\ msg' = set_body(msg, body)
       /\ call' = <<"set_body", body>>
  /\ before' = msg
  /\ ret' = None
  /\ hist' = Append(hist, "set_body")
  /\ UNCHANGED <<input, taskVars, sockets, open, task>>

\* header.add_header(key, value)
CallAddHeader ==
  /\ CanCall
  /\ \E key \in Keys, value \in Values :
       /\ msg' = add_header(msg, key, value)
       /\ call' = <<"add_header", key, value>>
  /\ before' = msg
  /\ ret' = None
  /\ hist' = Append(hist, "add_header")
  /\ UNCHANGED <<input, taskVars, sockets, open, task>>

UnitNext ==
  \/ Construct \/ CallSetHeader \/ CallRemoveHeader \/ CallGetHeader
  \/ CallGenerateHeader \/ Reconstruct \/ CallGetHostPort
  \/ CallSetMethod \/ CallSetPath \/ CallSetVersion \/ CallSetStatusCode
  \/ CallSetStatusMessage \/ CallSetBody \/ CallAddHeader

UnitSpec == UnitInit /\ [][UnitNext]_vars

(***************************************************************************)
(* server.server with many connections: the listener, the registry and     *)
(* the two sockets of every connection task.  A task is "none" (not yet    *)
(* accepted), "header" (in worker, before the handler), "handler", "done"  *)
(* or "crashed".                                                           *)
(***************************************************************************)
ServerInit ==
  /\ TaskIdle
  /\ UnitIdle
  /\ sockets = <<listener>>
  /\ open = {listener}
  /\ task = [t \in Tasks |-> "none"]

\* sock in sockets
in_sockets(reg, sock) == \E i \in 1..Len(reg) : reg[i] = sock

\* cleanup_all_sockets(): the sockets it closes
cleanup_all_sockets(reg) == {reg[i] : i \in 1..Len(reg)}

\* listener.accept() returns and the thread is started; connections are
\* numbered in the order they are accepted
Accept(t) ==
  /\ listener \in open
  /\ task[t] = "none"
  /\ \A u \in Tasks : u < t => task[u] # "none"
  /\ open' = open \cup {client_socket(t)}
  /\ task' = [task EXCEPT ![t] = "header"]
  /\ UNCHANGED <<sockets, taskVars, unitVars>>

\* worker: TimeoutError or ConnectionResetError in the header loop
TaskHeaderAbort(t) ==
  /\ task[t] = "header"
  /\ sockets' = cleanup_socket(sockets, client_socket(t))
  /\ open' = open \ {client_socket(t)}
  /\ task' = [task EXCEPT ![t] = "done"]
  /\ UNCHANGED <<taskVars, unitVars>>

\* worker: an exception it does not catch ends the thread
TaskCrash(t) ==
  /\ task[t] = "header"
  /\ task' = [task EXCEPT ![t] = "crashed"]
  /\ UNCHANGED <<sockets, open, taskVars, unitVars>>

\* worker: the destination socket is created and appended to sockets, a
\* handler is called
TaskOpenDest(t) ==
  /\ task[t] = "header"
  /\ sockets' = Append(sockets, dest_socket(t))
  /\ open' = open \cup {dest_socket(t)}
  /\ task' = [task EXCEPT ![t] = "handler"]
  /\ UNCHANGED <<taskVars, unitVars>>

\* the finally clause of a handler
TaskFinally(t) ==
  /\ task[t] = "handler"
  /\ sockets' = cleanup_socket(cleanup_socket(sockets, dest_socket(t)), client_socket(t))
  /\ open' = open \ {dest_socket(t), client_socket(t)}
  /\ task' = [task EXCEPT ![t] = "done"]
  /\ UNCHANGED <<taskVars, unitVars>>

\* KeyboardInterrupt in server(): listener.close(), cleanup_all_sockets();
\* the threads that run go on until the process is gone
Interrupt ==
  /\ listener \in open
  /\ open' = (open \ {listener}) \ cleanup_all_sockets(sockets)
  /\ sockets' = <<>>
  /\ UNCHANGED <<task, taskVars, unitVars>>

ServerNext ==
  \/ \E t \in Tasks :
       \/ Accept(t) \/ TaskHeaderAbort(t) \/ TaskCrash(t) \/ TaskOpenDest(t)
       \/ TaskFinally(t)
  \/ Interrupt

ServerSpec == ServerInit /\ [][ServerNext]_vars

(***************************************************************************)
(* Properties                                                              *)
(***************************************************************************)
\* the worker parsed a request and called a handler
Parsed == header # init_fields
IsConnect == Parsed /\ get_method(header) = <<"CONNECT">>
IsForward == Parsed /\ get_method(header) # <<"CONNECT">>

\* the lines of a header block
lines_of(b) == split(b, CRLF)

IsPrefix(a, b) == Len(a) <= Len(b) /\ SubSeq(b, 1, Len(a)) = a

\* C1: the request written to the destination has an origin-form target,
\* version HTTP/1.0 and the header line Connection: close, whatever the
\* client sent; and once the handler is past its send, it has been written
C1_ForwardedRequestRewritten ==
  IsForward =>
    /\ pc \in {"req_body", "resp_header", "resp_split", "resp_body"} => toDest # <<>>
    /\ toDest # <<>> =>
         LET lines == lines_of(toDest[1])
             words == split_ws(lines[1], -1)
         IN /\ Len(words) = 3
            /\ words[1] = header.method
            /\ Head(words[2]) \in {"/", "/p"}
            /\ ~contains(words[2], <<COLON, "//">>)
            /\ words[3] = <<"HTTP/1.0">>
            /\ \E i \in 2..Len(lines) : lines[i] = <<"Connection", COLON, SP, "close">>
            /\ \A i \in 2..Len(lines) :
                 (lines[i] # <<>> /\ Head(lines[i]) = "Connection")
                   => lines[i] = <<"Connection", COLON, SP, "close">>

\* an absolute-form HTTP/1.1 request with Connection: keep-alive was forwarded
C1_Witness ==
  /\ IsForward /\ toDest # <<>>
  /\ IsPrefix(ReqGet, cliSent)

\* C2: the client receives the response header re-serialized with version
\* HTTP/1.0 and Connection: close and nothing else changed, then the bytes
\* read past the response header terminator
C2_ResponseOnlyVersionAndConnection ==
  (IsForward /\ toClient # <<>>) =>
    LET received == split1(dstSent, CRLFCRLF)
        expected == set_header(set_version(HTTPHeader(decode(received[1])), <<"HTTP/1.0">>),
                               <<"Connection">>, <<"close">>)
    IN /\ toClient[1] = encode(generate_header(expected))
       /\ Len(toClient) >= 2
       /\ IsPrefix(Flat(Tail(toClient)), received[2])

\* C3: in a tunnel whose connect succeeded the first write to the client is
\* the 200 literal, no later write is the 200 or the 502 literal, and
\* nothing is relayed either way before it
C3_EstablishedFirst ==
  LET ok200 == <<"HTTP/1.0", SP, "200", SP, "Connection", SP, "Established",
                 CR, LF, CR, LF>>
      bad502 == <<"HTTP/1.0", SP, "502", SP, "Bad", SP, "Gateway", CR, LF, CR, LF>>
  IN IsConnect =>
       /\ dstState # "idle" => toClient # <<>>
       /\ (toClient # <<>> /\ dstState # "idle") => toClient[1] = ok200
       /\ toDest # <<>> => (toClient # <<>> /\ toClient[1] = ok200)
       /\ dstState # "idle" =>
            \A i \in 2..Len(toClient) : toClient[i] \notin {ok200, bad502}

\* a tunnel that has relayed bytes both ways
C3_Witness == IsConnect /\ Len(toClient) >= 2 /\ toDest # <<>>

\* C4: in a tunnel the destination is delivered the bytes the client sent
\* after the CONNECT header terminator, and the client, after the 200, the
\* bytes the destination sent: in order, nothing missing from the front
C4_TunnelVerbatim ==
  (IsConnect /\ dstState # "idle") =>
    /\ IsPrefix(Flat(toDest), split1(cliSent, CRLFCRLF)[2])
    /\ IsPrefix(Flat(Tail(toClient)), dstSent)

\* C5: a CONNECT whose connect did not succeed: the 502 literal is all the
\* client is ever written, nothing is relayed, and the task ends with both
\* sockets closed and the destination socket out of the registry
C5_BadGatewayOnly ==
  LET bad502 == <<"HTTP/1.0", SP, "502", SP, "Bad", SP, "Gateway", CR, LF, CR, LF>>
  IN (IsConnect /\ dstState = "idle") =>
       /\ toClient \in {<<>>, <<bad502>>}
       /\ toDest = <<>>
       /\ pc \in {"tunnel_connect", "done"}
       /\ pc = "done" =>
            /\ open \cap {"client", "dest"} = {}
            /\ \A i \in 1..Len(sockets) : sockets[i] # "dest"
            /\ (~get_host_port_raises(header) /\ cliState # "reset")
                 => toClient = <<bad502>>

\* the connect failed and the 502 was sent
C5_Witness ==
  /\ IsConnect /\ dstState = "idle" /\ pc = "done"
  /\ ~get_host_port_raises(header) /\ Len(toClient) = 1

\* C6: when a task has ended its client socket and its destination socket
\* are closed and neither is in the registry
C6_EndedTaskReleasedSockets ==
  Ended =>
    /\ open \cap {"client", "dest"} = {}
    /\ \A i \in 1..Len(sockets) : sockets[i] \notin {"client", "dest"}

\* C7: a zero-length read before a header terminator has arrived ends the
\* header loop
C7_ZeroLengthReadEndsHeaderLoop == data = <<>> => pc # "recv_header"

\* C8: a timeout or a reset of the client in the header loop ends the task:
\* nothing has been written to the client, no destination socket exists or
\* is registered, no connection was made, the client socket is closed
C8_HeaderAbortIsSilent ==
  [][(pc = "recv_header" /\ cliRx = <<>> /\ cliState \in {"open", "reset"}
        /\ pc' # "recv_header")
       => /\ pc' = "done"
          /\ toClient' = <<>> /\ toDest' = <<>>
          /\ dstState' = "idle"
          /\ "dest" \notin open' /\ "client" \notin open'
          /\ \A i \in 1..Len(sockets') : sockets'[i] \notin {"client", "dest"}]_vars

\* the client reset the connection after a part of the header block
C8_Witness ==
  pc = "done" /\ ~Parsed /\ cliState = "reset" /\ packet_buf # <<>>

\* C9: on a complete header block the worker parses it, opens and registers
\* a destination socket and calls one handler: the tunnel relay exactly for
\* CONNECT, otherwise the forwarding pipeline with the bytes past the
\* terminator
C9_DispatchOnCompleteHeader ==
  [][(pc = "split" /\ pc' # "split")
       => /\ pc' \in {"tunnel_connect", "pipe_connect"}
          /\ "dest" \in open'
          /\ \E i \in 1..Len(sockets') : sockets'[i] = "dest"
          /\ pc' = "tunnel_connect" <=> get_method(header') = <<"CONNECT">>
          /\ pc' = "pipe_connect" =>
               packet_buf' = From(packet_buf, header_end(packet_buf))]_vars

\* C10: a buffer whose header block ends in LF LF is split there, parsed
\* and dispatched
C10_LfLfAccepted ==
  [][(pc = "split" /\ pc' # "split" /\ find(packet_buf, CRLFCRLF) = -1)
       => /\ pc' \in {"tunnel_connect", "pipe_connect"}
          /\ packet_buf' = split1(packet_buf, LFLF)[2]
          /\ header' = worker_rewrite(HTTPHeader(decode(split1(packet_buf, LFLF)[1])))]_vars

\* a line of block b whose first lexeme is name
HasLine(b, name) ==
  \E i \in 1..Len(lines_of(b)) : lines_of(b)[i] # <<>> /\ Head(lines_of(b)[i]) = name

\* the headers of m as a set of name and value pairs
HeaderMap(m) == {m.headers[i] : i \in 1..Len(m.headers)}

\* C11: what generate_header returns is the first line, one line for each
\* header and a blank line: the block is ended by CRLF CRLF, whether or not
\* a body follows
C11_SerializedBlockTerminated ==
  (call = <<"generate_header">>) =>
    LET parts == split1(ret, CRLFCRLF)
    IN /\ Len(parts) = 2
       /\ Len(lines_of(parts[1])) = 1 + Len(msg.headers)

\* C12: for an object m made from any text, the object made from
\* m.generate_header() is a request exactly if m is, and has the same
\* method, target and version (or status code, status message and version)
\* and the same header map
C12_RoundTrip ==
  (hist = <<"HTTPHeader", "generate_header", "HTTPHeader">>) =>
    /\ msg.is_request = before.is_request
    /\ msg.version = before.version
    /\ before.is_request => (msg.method = before.method /\ msg.path = before.path)
    /\ ~before.is_request =>
         (msg.status_code = before.status_code
            /\ msg.status_message = before.status_message)
    /\ HeaderMap(msg) = HeaderMap(before)

\* C13: the object made from lines joined by LF or by CR is the object made
\* from the same lines joined by CRLF: the same first-line fields, the same
\* header map, the same body
C13_LineEndingInvariant ==
  (hist = <<"HTTPHeader">>) =>
    msg = HTTPHeader(Text([input EXCEPT !.eol = CRLF]))

\* a request with headers and a two-line body, its lines joined by CR
C13_Witness ==
  /\ hist = <<"HTTPHeader">> /\ input.eol = <<CR>> /\ Len(input.lines) = 5
  /\ msg.body = <<"x", LF, "y">> /\ msg.headers # <<>> /\ msg.path = <<"/p">>

\* C14: every socket that is open is in the registry
C14_OpenSocketsRegistered == \A sock \in open : in_sockets(sockets, sock)

\* C15: once the interrupt has been handled no socket is open and the
\* registry is empty, whatever the tasks that still run do
C15_InterruptClosesEverything ==
  (listener \notin open) => (open = {} /\ sockets = <<>>)

\* C16: the step that ends a task, by a failure or by its teardown, leaves
\* the listener as it is and leaves every other task, its two sockets and
\* its registry entries as they are
C16_TeardownIsLocal ==
  [][\A t \in Tasks :
       (task[t] \in {"header", "handler"} /\ task'[t] \in {"done", "crashed"})
         => /\ (listener \in open') = (listener \in open)
            /\ in_sockets(sockets', listener) = in_sockets(sockets, listener)
            /\ \A u \in Tasks \ {t} :
                 /\ task'[u] = task[u]
                 /\ \A sock \in {client_socket(u), dest_socket(u)} :
                      /\ (sock \in open') = (sock \in open)
                      /\ in_sockets(sockets', sock) = in_sockets(sockets, sock)]_vars

\* a task has been torn down and another has crashed while a third is in
\* its handler, its sockets open and its destination socket registered, and
\* the listener is open
C16_Witness ==
  \E t, u, v \in Tasks :
    /\ task[t] = "done" /\ task[v] = "crashed" /\ task[u] = "handler"
    /\ {client_socket(u), dest_socket(u), listener} \subseteq open
    /\ in_sockets(sockets, dest_socket(u)) /\ in_sockets(sockets, listener)

\* C17: the forwarded request has a Proxy-Connection line exactly if the
\* request the client sent has one, the forwarded response exactly if the
\* response the destination sent has one, and the line is
\* Proxy-Connection: close
C17_ProxyConnectionOnlyWhenPresent ==
  LET forced(b) ==
        \A i \in 1..Len(lines_of(b)) :
          (lines_of(b)[i] # <<>> /\ Head(lines_of(b)[i]) = "Proxy-Connection")
            => lines_of(b)[i] = <<"Proxy-Connection", COLON, SP, "close">>
  IN /\ (IsForward /\ toDest # <<>>) =>
          /\ HasLine(toDest[1], "Proxy-Connection")
               = HasLine(split1(cliSent, CRLFCRLF)[1], "Proxy-Connection")
          /\ forced(toDest[1])
     /\ (IsForward /\ toClient # <<>>) =>
          /\ HasLine(toClient[1], "Proxy-Connection")
               = HasLine(split1(dstSent, CRLFCRLF)[1], "Proxy-Connection")
          /\ forced(toClient[1])

\* C18: for an object with a Host header get_host_port returns the host and
\* the port of a value host:port, and for a value without a colon the value
\* and 80, or 443 if the target contains https://
C18_ResolverFromHost ==
  (call = <<"get_host_port">> /\ dict_has(msg.headers, <<"Host">>)) =>
    LET value == dict_get(msg.headers, <<"Host">>)
    IN ret = IF contains(value, <<COLON>>)
             THEN <<split(value, <<COLON>>)[1], int(split(value, <<COLON>>)[2])>>
             ELSE <<value, IF contains(msg.path, <<"https", COLON, "//">>)
                           THEN 443 ELSE 80>>

\* C19: a request without a Host header never gets a destination; and
\* while no destination is connected, for a request without Host or on the
\* forwarding path, nothing has been written to the client or to a
\* destination, the only step left ends the task, and the task ends with
\* both sockets closed
C19_NoDestinationSilentAbort ==
  /\ (Parsed /\ host_value(header) = None) => dstState = "idle"
  /\ (Parsed /\ dstState = "idle" /\ (host_value(header) = None \/ IsForward)) =>
       /\ toClient = <<>> /\ toDest = <<>>
       /\ pc \in {"tunnel_connect", "pipe_connect", "done"}
       /\ pc = "done" => open \cap {"client", "dest"} = {}

\* the connect of a forwarded request that names its host failed
C19_Witness ==
  /\ pc = "done" /\ IsForward /\ dstState = "idle"
  /\ host_value(header) = <<"a.com">>

\* C20: set_header on a name in the map replaces its value and changes
\* nothing else; remove_header on a name not in the map changes nothing;
\* get_header on a name not in the map returns None; none of them raises
C20_HeaderMapFrame ==
  (call # <<>> /\ call[1] \in {"set_header", "remove_header", "get_header"}) =>
    /\ (call[1] = "set_header" /\ dict_has(before.headers, call[2])) =>
         /\ Len(msg.headers) = Len(before.headers)
         /\ dict_get(msg.headers, call[2]) = call[3]
         /\ \A i \in 1..Len(before.headers) :
              before.headers[i][1] # call[2] => msg.headers[i] = before.headers[i]
         /\ [msg EXCEPT !.headers = before.headers] = before
         /\ ret = None
    /\ (call[1] = "remove_header" /\ ~dict_has(before.headers, call[2])) =>
         (msg = before /\ ret = None)
    /\ (call[1] = "get_header" /\ ~dict_has(before.headers, call[2])) =>
         (msg = before /\ ret = None)

\* set_header on a name that is in the map, after a remove_header of a name
\* that is not
C20_Witness ==
  /\ hist = <<"HTTPHeader", "remove_header", "set_header">>
  /\ call = <<"set_header", <<"Host">>, <<"b.com">>>>
  /\ dict_get(before.headers, <<"Host">>) = <<"a.com", COLON, "80">>
  /\ Len(before.headers) = 2

\* the order of the stages of the forwarding pipeline, as the state shows it
StageOrder ==
  \* the connect has returned before anything is written to the destination
  /\ toDest # <<>> => dstState # "idle"
  \* the first write to the destination begins with the request header
  /\ toDest # <<>> => IsPrefix(encode(generate_header(header)), toDest[1])
  \* up to the end of the request body stage nothing is read from the
  \* destination
  /\ pc \in {"pipe_connect", "pipe_send", "req_body"} =>
       (dstRx = dstSent /\ resp_buf = <<>> /\ toClient = <<>>)
  \* the first write to the client is the response header
  /\ toClient # <<>> => toClient[1] = encode(generate_header(resp_header))

\* C21: in the forwarding pipeline the connect comes before any write to
\* the destination, the request header before the request body bytes, no
\* read from the destination before the request body stage has ended, the
\* response header before the response body bytes, and nothing is read or
\* written once both sockets are closed
C21_PipelineStageOrder ==
  [][/\ (IsForward => StageOrder)'
     /\ (IsForward /\ open \cap {"client", "dest"} = {}) =>
          (toClient' = toClient /\ toDest' = toDest /\ cliRx' = cliRx
             /\ dstRx' = dstRx)]_vars

\* a pipeline that went through every stage: a request body chunk and a
\* response body chunk were forwarded, and the task has ended
C21_Witness ==
  /\ IsForward /\ pc = "done"
  /\ Len(toDest) >= 2 /\ Len(toClient) >= 3

\* C22: the request body stage is entered only for a request that declares
\* Content-Length or Transfer-Encoding, it is left as soon as the bytes
\* forwarded in it hold a header terminator, and for a request that declares
\* neither nothing more is forwarded from the client
C22_RequestBodyStage ==
  /\ pc = "req_body" =>
       (declares_body(header) /\ ~contains(Flat(Tail(toDest)), CRLFCRLF))
  /\ (IsForward /\ toDest # <<>> /\ ~declares_body(header)) => Len(toDest) = 1

\* C23: when the response header loop ends without a header terminator the
\* bytes accumulated are the header part, the leftover is empty, and the
\* rewritten header is sent to the client before the teardown
C23_NoTerminatorIsNoMoreData ==
  [][(pc = "resp_split" /\ pc' # "resp_split" /\ find(resp_buf, CRLFCRLF) = -1
        /\ cliState # "reset")
       => /\ toClient' # <<>>
          /\ toClient'[1]
               = encode(generate_header(resp_rewrite(HTTPHeader(decode(resp_buf)))))
          /\ resp_buf' = <<>>]_vars

\* the response declares more than the leftover already sent: a
\* Content-Length greater than the number of leftover bytes, or
\* Transfer-Encoding
DeclaresMore(h, leftover) ==
  \/ /\ dict_has(h.headers, <<"Content-Length">>)
     /\ is_int(dict_get(h.headers, <<"Content-Length">>))
     /\ int(dict_get(h.headers, <<"Content-Length">>)) > len(leftover)
  \/ dict_has(h.headers, <<"Transfer-Encoding">>)

\* C24: once the response header and the leftover are sent the pipeline
\* reads on from the destination exactly if the response declares more;
\* then every chunk read is written to the client, in order, until a read
\* times out or returns empty; otherwise the header and the leftover are
\* all the client ever gets
C24_ResponseBodyStage ==
  [][/\ (pc = "resp_split" /\ toClient' # toClient) =>
          /\ toClient' = <<encode(generate_header(resp_header')), resp_buf'>>
          /\ (pc' = "resp_body") = DeclaresMore(resp_header', resp_buf')
          /\ (pc' = "done") = ~DeclaresMore(resp_header', resp_buf')
     /\ (pc = "resp_body" /\ pc' = "resp_body" /\ dstRx' # dstRx /\ dstSent' = dstSent) =>
          /\ toClient' = Append(toClient, recv(dstRx))
          /\ dstRx = recv(dstRx) \o dstRx'
     /\ (pc = "resp_body" /\ pc' = "done" /\ cliState # "reset") =>
          (dstRx = <<>> /\ toClient' = toClient)
     /\ (IsForward /\ toClient # <<>>)' =>
          /\ IsPrefix(Flat(Tail(toClient)), split1(dstSent, CRLFCRLF)[2])'
          /\ (~DeclaresMore(resp_header, resp_buf) =>
                (pc = "done" /\ toClient = <<toClient[1], resp_buf>>))']_vars

\* a response with Content-Length: 2 came with one byte of body, which was
\* sent as the leftover; the second byte was read and forwarded afterwards
C24_Witness ==
  /\ IsForward /\ Len(toClient) = 3
  /\ dict_get(resp_header.headers, <<"Content-Length">>) = <<"2">>
  /\ toClient[2] = <<"s">> /\ toClient[3] = <<"t">>

\* a response that declares no length was forwarded and the task has ended;
\* the byte the destination sent after the header was never read
C24_WitnessUndelivered ==
  /\ IsForward /\ pc = "done" /\ Len(toClient) = 2 /\ toClient[2] = <<>>
  /\ dstRx = <<"s">>

\* a response with Transfer-Encoding was forwarded and a chunk read after it
C24_WitnessChunked ==
  /\ IsForward /\ Len(toClient) = 3
  /\ dict_has(resp_header.headers, <<"Transfer-Encoding">>)

\* the relay loop of the tunnel
Relaying == pc \in {"relay_select", "relay_client", "relay_dest"}

\* C25: in the relay a zero-length read on either socket ends the relay at
\* once: both sockets are closed and nothing more is read or written, not
\* even what select had reported readable on the other socket; and once a
\* peer has closed the relay comes to its end
C25_ZeroLengthReadEndsRelay ==
  /\ [][/\ (pc = "relay_client" /\ pc' # pc /\ cliRx = <<>> /\ cliState = "eof") =>
             /\ pc' = "done"
             /\ open' \cap {"client", "dest"} = {}
             /\ toClient' = toClient /\ toDest' = toDest /\ dstRx' = dstRx
        /\ (pc = "relay_dest" /\ pc' # pc /\ dstRx = <<>>) =>
             /\ pc' = "done"
             /\ open' \cap {"client", "dest"} = {}
             /\ toClient' = toClient /\ toDest' = toDest /\ cliRx' = cliRx
        /\ (IsConnect /\ pc = "done") =>
             UNCHANGED <<pc, toClient, toDest, cliRx, dstRx, open>>]_vars
  /\ (Relaying /\ (cliState = "eof" \/ dstState = "eof")) ~> (pc = "done")

\* the client's read returned empty in an iteration in which select had
\* reported the destination readable too, with bytes that were never read
C25_Witness ==
  /\ IsConnect /\ pc = "done" /\ has_data = {"client", "dest"}
  /\ cliState = "eof" /\ cliRx = <<>> /\ dstRx # <<>>

\* C26: in every iteration of the relay each socket select reported is
\* serviced, the client first and then the destination: what is pending on
\* the destination is written to the client in the iteration in which the
\* client was readable too, and the other way round; so bytes pending on
\* either side are read in the end
C26_BothServicedPerIteration ==
  /\ [][/\ (pc = "relay_select" /\ pc' # pc) =>
             /\ has_data' = readable
             /\ (pc' = "relay_client") = ("client" \in has_data')
             /\ (pc' = "relay_dest") = (has_data' = {"dest"})
        /\ (pc = "relay_client" /\ pc' # pc /\ cliRx # <<>> /\ cliState # "reset") =>
             /\ toDest' = Append(toDest, recv(cliRx))
             /\ cliRx = recv(cliRx) \o cliRx'
             /\ pc' = IF "dest" \in has_data THEN "relay_dest" ELSE "relay_select"
        /\ (pc = "relay_dest" /\ pc' # pc /\ dstRx # <<>> /\ cliState # "reset") =>
             /\ toClient' = Append(toClient, recv(dstRx))
             /\ dstRx = recv(dstRx) \o dstRx'
             /\ pc' = "relay_select"]_vars
  /\ (Relaying /\ dstRx # <<>>) ~> (dstRx = <<>> \/ pc = "done")
  /\ (Relaying /\ cliRx # <<>>) ~> (cliRx = <<>> \/ pc = "done")

\* an iteration in which select reported both sockets has ended: bytes of
\* the client went to the destination and bytes of the destination to the
\* client
C26_Witness ==
  /\ IsConnect /\ pc = "relay_select" /\ has_data = {"client", "dest"}
  /\ toDest # <<>> /\ Len(toClient) >= 2

\* the last of the calls made so far that sets the kind of the object
LastKindCall ==
  CHOOSE i \in 1..Len(hist) :
    /\ hist[i] \in {"HTTPHeader", "set_method", "set_status_code"}
    /\ \A j \in (i + 1)..Len(hist) :
         hist[j] \notin {"HTTPHeader", "set_method", "set_status_code"}

C27_WitnessMethod ==
  /\ hist = <<"HTTPHeader", "set_method", "set_path">>
  /\ input.lines # <<>> /\ startswith_HTTP(input.lines[1])
  /\ msg.is_request

\* C28: in the forwarding handler nothing the worker read from the client
\* is lost where the header is split off: what it had read is the raw
\* header, the terminator and the rest, in the order the client sent them;
\* the first write to the destination is the rewritten header as
\* generate_header gives it, followed by exactly that rest; and what the
\* client sent is the raw header, the terminator and, in order, the rest,
\* the later writes and the bytes not yet read
C28_NoByteLostAtSplit ==
  (IsForward /\ toDest # <<>>) =>
    LET parts == split1(cliSent, CRLFCRLF)
        rawHeader == parts[1]
        leftover == packet_buf
    IN /\ Len(parts) = 2
       /\ IsPrefix(rawHeader \o CRLFCRLF \o leftover, cliSent)
       /\ header = pipe_rewrite(worker_rewrite(HTTPHeader(decode(rawHeader))))
       /\ toDest[1] = encode(generate_header(header)) \o leftover
       /\ cliState # "reset" =>
            cliSent = rawHeader \o CRLFCRLF \o leftover \o Flat(Tail(toDest)) \o cliRx

\* the worker had read two bytes of the body with the header, and the
\* request went out
C28_Witness ==
  /\ IsForward /\ toDest # <<>> /\ Len(packet_buf) >= 2
  /\ pc = "done" /\ toClient # <<>>

====
